---- MODULE Spec2Model ----
(***************************************************************************)
(* Caption utilities: the text cleaner (test_tools/clean_captions.py) and   *)
(* the caption fetcher (test_tools/link_to_cap.py).                         *)
(*                                                                         *)
(* A text is a sequence of characters, each character a one-character       *)
(* string.  The regular-expression steps of clean_text are operators that   *)
(* scan the text from left to right the way re.sub and re.split do.         *)
(***************************************************************************)
EXTENDS Integers, Sequences, FiniteSets, TLC

(***************************************************************************)
(* Bounds of the input families                                            *)
(***************************************************************************)
MaxLen == 4

MaxTags == 3

MaxSentences == 9

MaxLines == 5

(***************************************************************************)
(* Character classes                                                       *)
(***************************************************************************)
Whitespace == {" ", "\t", "\n", "\r"}

Digits == {"0", "1", "2", "3", "4", "5", "6", "7", "8", "9"}

Upper ==
  {"A", "B", "C", "D", "E", "F", "G", "H", "I", "J", "K", "L", "M",
   "N", "O", "P", "Q", "R", "S", "T", "U", "V", "W", "X", "Y", "Z"}

Punct == {",", ".", "!", "?", ";", ":"}

Terminal == {".", "!", "?"}

(***************************************************************************)
(* Sequence helpers: str.join, startswith, substring search, str.strip,     *)
(* str.split('\n')                                                         *)
(***************************************************************************)
RECURSIVE Join(_, _)
Join(parts, sep) ==
  IF parts = << >> THEN << >>
  ELSE IF Len(parts) = 1 THEN parts[1]
  ELSE parts[1] \o sep \o Join(Tail(parts), sep)

RECURSIVE Concat(_)
Concat(parts) ==
  IF parts = << >> THEN << >> ELSE parts[1] \o Concat(Tail(parts))

StartsWithAt(s, i, lit) ==
  /\ i + Len(lit) - 1 <= Len(s)
  /\ SubSeq(s, i, i + Len(lit) - 1) = lit

Contains(s, lit) == \E i \in 1..Len(s) : StartsWithAt(s, i, lit)

RECURSIVE LStrip(_)
LStrip(s) ==
  IF s # << >> /\ s[1] \in Whitespace THEN LStrip(Tail(s)) ELSE s

RECURSIVE RStrip(_)
RStrip(s) ==
  IF s # << >> /\ s[Len(s)] \in Whitespace
  THEN RStrip(SubSeq(s, 1, Len(s) - 1))
  ELSE s

Strip(s) == RStrip(LStrip(s))

RECURSIVE SplitOn(_, _, _)
SplitOn(s, ch, cur) ==
  IF s = << >> THEN << cur >>
  ELSE IF s[1] = ch THEN << cur >> \o SplitOn(Tail(s), ch, << >>)
  ELSE SplitOn(Tail(s), ch, Append(cur, s[1]))

SplitNewlines(s) == SplitOn(s, "\n", << >>)

(***************************************************************************)
(* clean_text, steps 1 to 3: the three tag removals                        *)
(***************************************************************************)
TimestampPattern ==
  << "<", "d", "d", ":", "d", "d", ":", "d", "d", ".", "d", "d", "d", ">" >>

TimestampAt(s, i) ==
  /\ i + Len(TimestampPattern) - 1 <= Len(s)
  /\ \A k \in 1..Len(TimestampPattern) :
       IF TimestampPattern[k] = "d"
       THEN s[i + k - 1] \in Digits
       ELSE s[i + k - 1] = TimestampPattern[k]

RECURSIVE RemoveTimestampsFrom(_, _)
RemoveTimestampsFrom(s, i) ==
  IF i > Len(s) THEN << >>
  ELSE IF TimestampAt(s, i)
       THEN RemoveTimestampsFrom(s, i + Len(TimestampPattern))
       ELSE << s[i] >> \o RemoveTimestampsFrom(s, i + 1)

RemoveTimestamps(s) == RemoveTimestampsFrom(s, 1)

RECURSIVE RemoveCTagsFrom(_, _)
RemoveCTagsFrom(s, i) ==
  IF i > Len(s) THEN << >>
  ELSE IF StartsWithAt(s, i, << "<", "c", ">" >>)
       THEN RemoveCTagsFrom(s, i + 3)
       ELSE IF StartsWithAt(s, i, << "<", "/", "c", ">" >>)
            THEN RemoveCTagsFrom(s, i + 4)
            ELSE << s[i] >> \o RemoveCTagsFrom(s, i + 1)

RemoveCTags(s) == RemoveCTagsFrom(s, 1)

\* <[^>]+> at i: "<", at least one character other than ">", then the
\* first ">" that follows.
TagCloseAt(s, i) ==
  IF /\ s[i] = "<"
     /\ i + 1 <= Len(s)
     /\ s[i + 1] # ">"
     /\ \E j \in (i + 2)..Len(s) : s[j] = ">"
  THEN CHOOSE j \in (i + 2)..Len(s) :
         /\ s[j] = ">"
         /\ \A k \in (i + 2)..(j - 1) : s[k] # ">"
  ELSE 0

RECURSIVE RemoveTagsFrom(_, _)
RemoveTagsFrom(s, i) ==
  IF i > Len(s) THEN << >>
  ELSE IF TagCloseAt(s, i) # 0
       THEN RemoveTagsFrom(s, TagCloseAt(s, i) + 1)
       ELSE << s[i] >> \o RemoveTagsFrom(s, i + 1)

RemoveTags(s) == RemoveTagsFrom(s, 1)

StripMarkup(s) == RemoveTags(RemoveCTags(RemoveTimestamps(s)))

(***************************************************************************)
(* clean_text, step 4: trimmed, non-empty lines without consecutive         *)
(* duplicates                                                              *)
(***************************************************************************)
KeepLineGlobal(cleaned_lines, line) ==
  \A k \in 1..Len(cleaned_lines) : cleaned_lines[k] # line

KeepLine(cleaned_lines, line) ==
  cleaned_lines = << >> \/ line # cleaned_lines[Len(cleaned_lines)]

RECURSIVE CleanLinesFrom(_, _, _)
CleanLinesFrom(lines, i, cleaned_lines) ==
  IF i > Len(lines) THEN cleaned_lines
  ELSE LET line == Strip(lines[i])
       IN  IF line = << >>
           THEN CleanLinesFrom(lines, i + 1, cleaned_lines)
           ELSE IF KeepLine(cleaned_lines, line)
                THEN CleanLinesFrom(lines, i + 1, Append(cleaned_lines, line))
                ELSE CleanLinesFrom(lines, i + 1, cleaned_lines)

CleanLines(s) == CleanLinesFrom(SplitNewlines(s), 1, << >>)

(***************************************************************************)
(* clean_text, steps 5 to 7: whitespace and punctuation spacing            *)
(***************************************************************************)
\* The end of the maximal whitespace run that starts at i (i - 1 if none).
RECURSIVE RunEnd(_, _)
RunEnd(s, i) ==
  IF i <= Len(s) /\ s[i] \in Whitespace THEN RunEnd(s, i + 1) ELSE i - 1

RECURSIVE CollapseFrom(_, _)
CollapseFrom(s, i) ==
  IF i > Len(s) THEN << >>
  ELSE IF s[i] \in Whitespace
       THEN << " " >> \o CollapseFrom(s, RunEnd(s, i) + 1)
       ELSE << s[i] >> \o CollapseFrom(s, i + 1)

CollapseWhitespace(s) == CollapseFrom(s, 1)

RECURSIVE PunctSpacingFrom(_, _)
PunctSpacingFrom(s, i) ==
  IF i > Len(s) THEN << >>
  ELSE LET e == RunEnd(s, i)
       IN  IF e >= i /\ e + 1 <= Len(s) /\ s[e + 1] \in Punct
           THEN << s[e + 1] >> \o PunctSpacingFrom(s, e + 2)
           ELSE << s[i] >> \o PunctSpacingFrom(s, i + 1)

PunctSpacingSkipped(s) == s

PunctSpacing(s) == PunctSpacingFrom(s, 1)

RECURSIVE SentenceSpacingFrom(_, _)
SentenceSpacingFrom(s, i) ==
  IF i > Len(s) THEN << >>
  ELSE LET e == RunEnd(s, i + 1)
       IN  IF s[i] \in Terminal /\ e + 1 <= Len(s) /\ s[e + 1] \in Upper
           THEN << s[i], " ", s[e + 1] >> \o SentenceSpacingFrom(s, e + 2)
           ELSE << s[i] >> \o SentenceSpacingFrom(s, i + 1)

SentenceSpacing(s) == SentenceSpacingFrom(s, 1)

Normalize(cleaned_lines) ==
  SentenceSpacing(PunctSpacing(CollapseWhitespace(Join(cleaned_lines, << "\n" >>))))

(***************************************************************************)
(* clean_text, step 8: re.split(r'(?<=[.!?])\s+')                          *)
(***************************************************************************)
RECURSIVE SplitSentencesFrom(_, _, _)
SplitSentencesFrom(s, i, cur) ==
  IF i > Len(s) THEN << cur >>
  ELSE IF i > 1 /\ s[i - 1] \in Terminal /\ s[i] \in Whitespace
       THEN << cur >> \o SplitSentencesFrom(s, RunEnd(s, i) + 1, << >>)
       ELSE SplitSentencesFrom(s, i + 1, Append(cur, s[i]))

SplitSentences(s) == SplitSentencesFrom(s, 1, << >>)

(***************************************************************************)
(* clean_text, steps 9 and 10: paragraphs of 4 sentences                    *)
(***************************************************************************)
ParagraphSize == 4

FlushAtNoRemainder(current_paragraph, i, n) ==
  Len(current_paragraph) >= ParagraphSize

FlushAt(current_paragraph, i, n) ==
  Len(current_paragraph) >= ParagraphSize \/ i = n

\* The groups of sentences the loop appends to paragraphs, before each is
\* joined with spaces.
RECURSIVE GroupFrom(_, _, _, _)
GroupFrom(sentences, i, current_paragraph, groups) ==
  IF i > Len(sentences) THEN groups
  ELSE LET sentence == Strip(sentences[i])
           appended == Append(current_paragraph, sentence)
       IN  IF sentence = << >>
           THEN GroupFrom(sentences, i + 1, current_paragraph, groups)
           ELSE IF FlushAt(appended, i, Len(sentences))
                THEN GroupFrom(sentences, i + 1, << >>, Append(groups, appended))
                ELSE GroupFrom(sentences, i + 1, appended, groups)

Group(sentences) == GroupFrom(sentences, 1, << >>, << >>)

ParagraphTexts(groups) == [k \in 1..Len(groups) |-> Join(groups[k], << " " >>)]

FinalText(groups) == Join(ParagraphTexts(groups), << "\n", "\n" >>)

clean_text(s) == FinalText(Group(SplitSentences(Normalize(CleanLines(StripMarkup(s))))))

(***************************************************************************)
(* parse_vtt_file: the line filter of link_to_cap.py                        *)
(***************************************************************************)
\* file.readlines(): the lines of the content, without a last empty piece.
ReadLines(data) ==
  LET pieces == SplitNewlines(data)
  IN  IF pieces[Len(pieces)] = << >>
      THEN SubSeq(pieces, 1, Len(pieces) - 1)
      ELSE pieces

WebVtt == << "W", "E", "B", "V", "T", "T" >>

Note == << "N", "O", "T", "E" >>

Arrow == << "-", "-", ">" >>

IsHeaderOrTiming(line) ==
  \/ StartsWithAt(line, 1, WebVtt)
  \/ StartsWithAt(line, 1, Note)
  \/ Contains(line, Arrow)
  \/ line = << >>

\* line.replace(':', '').replace('.', '').replace(',', '').isdigit()
LooksLikeTimestamp(line) ==
  LET rest == SelectSeq(line, LAMBDA c : c \notin {":", ".", ","})
  IN  rest # << >> /\ \A k \in 1..Len(rest) : rest[k] \in Digits

IsCaptionTextAnyStart(line) == line # << >>

IsCaptionText(line) == line # << >> /\ line[1] # "<"

KeptByParser(line) ==
  /\ ~IsHeaderOrTiming(line)
  /\ ~LooksLikeTimestamp(line)
  /\ IsCaptionText(line)

parse_vtt_file(data) ==
  LET lines == ReadLines(data)
      stripped == [k \in 1..Len(lines) |-> Strip(lines[k])]
  IN  Join(SelectSeq(stripped, KeptByParser), << "\n" >>)

(***************************************************************************)
(* State                                                                   *)
(***************************************************************************)
VARIABLES
  \* clean_text: the argument, the position in the function and its locals
  text, clean_pc, cleaned_lines, sentences, paragraphs, final_text, recleaned,
  \* the file system, by file name
  files,
  \* clean_captions: position, locals, return value, printed messages, the
  \* file system at the call and the steps taken
  cc_pc, content, cleaned_text, cc_result, cc_reported, cc_files_at_call, cc_trace,
  \* get_video_captions and main of link_to_cap.py
  gv_pc, language, subtitles, automatic_captions, ydl_opts, captions,
  gv_reported, gv_trace, materialized, all_ok,
  \* parse_vtt_file on its own: the file's content, position, return value
  vtt_data, vtt_pc, vtt_result

cleanVars ==
  << text, clean_pc, cleaned_lines, sentences, paragraphs, final_text, recleaned >>

cleanerVars ==
  << cc_pc, content, cleaned_text, cc_result, cc_reported, cc_files_at_call, cc_trace >>

fetchVars ==
  << gv_pc, language, subtitles, automatic_captions, ydl_opts, captions,
     gv_reported, gv_trace, materialized, all_ok >>

vttVars == << vtt_data, vtt_pc, vtt_result >>

vars == << cleanVars, files, cleanerVars, fetchVars, vttVars >>

\* Python's None and a present value; a missing file and a file's content.
None == << >>

Some(v) == << v >>

Absent == << >>

File(data) == << data >>

BoundedSeqs(S, n) == UNION {[1..k -> S] : k \in 0..n}

(***************************************************************************)
(* clean_text as a state machine over one input text                        *)
(***************************************************************************)
CharAlphabet == {"a", "A", ".", " ", "\n", ","}

Timestamp ==
  << "<", "0", "1", ":", "1", "3", ":", "2", "9", ".", "3", "2", "0", ">" >>

TagTokens ==
  { << "<" >>, << ">" >>, << "<", "c", ">" >>, << "<", "/", "c", ">" >>,
    Timestamp, << "x" >>, << "\n" >> }

SentenceTokens == { << "A", "." >>, << "b", "!", " " >> }

LineTokens == { << "a", "\n" >>, << "b", "\n" >>, << " ", "\n" >> }

CleanInputs ==
  BoundedSeqs(CharAlphabet, MaxLen)
    \cup {Concat(ts) : ts \in BoundedSeqs(TagTokens, MaxTags)}
    \cup {Concat(ts) : ts \in BoundedSeqs(SentenceTokens, MaxSentences)}
    \cup {Concat(ts) : ts \in BoundedSeqs(LineTokens, MaxLines)}

CleanIdle ==
  /\ text = << >>
  /\ clean_pc = "idle"
  /\ cleaned_lines = << >>
  /\ sentences = << >>
  /\ paragraphs = << >>
  /\ final_text = << >>
  /\ recleaned = << >>

\* Steps 1 to 4 (lines 56-78).
CleanToLines ==
  /\ clean_pc = "start"
  /\ cleaned_lines' = CleanLines(StripMarkup(text))
  /\ clean_pc' = "lines"
  /\ UNCHANGED << text, sentences, paragraphs, final_text, recleaned >>

\* Steps 5 to 8 (lines 80-94).
CleanToSentences ==
  /\ clean_pc = "lines"
  /\ sentences' = SplitSentences(Normalize(cleaned_lines))
  /\ clean_pc' = "sentences"
  /\ UNCHANGED << text, cleaned_lines, paragraphs, final_text, recleaned >>

\* Steps 9 and 10 and the return (lines 96-113).
CleanToFinal ==
  /\ clean_pc = "sentences"
  /\ paragraphs' = Group(sentences)
  /\ final_text' = FinalText(Group(sentences))
  /\ clean_pc' = "done"
  /\ UNCHANGED << text, cleaned_lines, sentences, recleaned >>

\* clean_text called again on its own output.
Reclean ==
  /\ clean_pc = "done"
  /\ recleaned' = clean_text(final_text)
  /\ clean_pc' = "recleaned"
  /\ UNCHANGED << text, cleaned_lines, sentences, paragraphs, final_text >>

(***************************************************************************)
(* parse_vtt_file as a state machine over one file                          *)
(***************************************************************************)
MaxVttTokens == 4

VttTokens ==
  { WebVtt, Note, Arrow, << "0" >>, << ":" >>, << "<" >>, << "a" >>,
    << " " >>, << "\n" >> }

\* WEBVTT, a timing line and one text line.
VttExample ==
  WebVtt \o << "\n" >>
    \o << "0", "0", ":", "0", "0", ":", "0", "1", ".", "0", "0", "0", " " >>
    \o Arrow
    \o << " ", "0", "0", ":", "0", "0", ":", "0", "2", ".", "0", "0", "0", "\n" >>
    \o << "H", "e", "l", "l", "o", "\n" >>

VttHeaderOnly == WebVtt \o << "\n" >>

VttInputs ==
  {Concat(ts) : ts \in BoundedSeqs(VttTokens, MaxVttTokens)} \cup {VttExample}

VttIdle ==
  /\ vtt_data = << >>
  /\ vtt_pc = "idle"
  /\ vtt_result = None

\* Lines 91-112: the file is read and filtered.
VttParse ==
  /\ vtt_pc = "start"
  /\ vtt_result' = Some(parse_vtt_file(vtt_data))
  /\ vtt_pc' = "parsed"
  /\ UNCHANGED vtt_data

\* Lines 114-116: open or read raises, the message is printed, None returned.
VttFail ==
  /\ vtt_pc = "start"
  /\ vtt_result' = None
  /\ vtt_pc' = "failed"
  /\ UNCHANGED vtt_data

(***************************************************************************)
(* The file system                                                         *)
(***************************************************************************)
Langs == {"en", "fr"}

InputFile == "captions_en.txt"

OutputFile == "cleaned_captions.txt"

TempName(lang) == IF lang = "en" THEN "temp_subtitle.en.vtt" ELSE "temp_subtitle.fr.vtt"

SaveName(lang) == IF lang = "en" THEN "captions_en.txt" ELSE "captions_fr.txt"

FileNames ==
  {InputFile, OutputFile} \cup {TempName(l) : l \in Langs} \cup {SaveName(l) : l \in Langs}

NoFiles == [n \in FileNames |-> Absent]

Exists(fs, name) == fs[name] # Absent

WriteFile(fs, name, data) == [fs EXCEPT ![name] = File(data)]

UnlinkKeepsFile(fs, name) == fs

Unlink(fs, name) == [fs EXCEPT ![name] = Absent]

(***************************************************************************)
(* clean_captions (clean_captions.py, lines 5-42)                           *)
(***************************************************************************)
SpecExample ==
  << "H", "i", "<", "0", "1", ":", "1", "3", ":", "2", "9", ".", "3", "2", "0", ">",
     ".", " ", "I", "s", "<", "c", ">", " ", "o", "k", "<", "/", "c", ">", "!", "\n",
     "H", "i", "<", "0", "1", ":", "1", "3", ":", "2", "9", ".", "3", "2", "0", ">",
     ".", " ", "I", "s", "<", "c", ">", " ", "o", "k", "<", "/", "c", ">", "!" >>

CleanerTexts ==
  { << >>, << "a", " ", ".", "B" >>, << "a", "\n", "a", "\n", "b" >>, SpecExample }

OldOutput == << "o", "l", "d" >>

CleanerIdle ==
  /\ cc_pc = "idle"
  /\ content = << >>
  /\ cleaned_text = << >>
  /\ cc_result = None
  /\ cc_reported = << >>
  /\ cc_files_at_call = NoFiles
  /\ cc_trace = << >>

\* The caller passes the default file names; the files are what the
\* directory holds at that moment.
CcCallMissingAsEmpty ==
  /\ cc_pc \in {"idle", "returned"}
  /\ cc_files_at_call' = files
  /\ cc_result' = None
  /\ cleaned_text' = << >>
  /\ content' = << >>
  /\ cc_reported' = << >>
  /\ IF Exists(files, InputFile)
     THEN cc_pc' = "read" /\ cc_trace' = << >>
     ELSE cc_pc' = "write" /\ cc_trace' = << >>
  /\ UNCHANGED files

\* Lines 17-19: the existence check, its message and return None.
CcCall ==
  /\ cc_pc \in {"idle", "returned"}
  /\ cc_files_at_call' = files
  /\ cc_trace' = << >>
  /\ cc_result' = None
  /\ cleaned_text' = << >>
  /\ content' = << >>
  /\ IF Exists(files, InputFile)
     THEN cc_pc' = "read" /\ cc_reported' = << >>
     ELSE cc_pc' = "returned" /\ cc_reported' = << "not found" >>
  /\ UNCHANGED files

\* Lines 23-26: the input is read; a failure goes to the handler of
\* lines 40-42.
CcRead ==
  /\ cc_pc = "read"
  /\ \/ /\ Exists(files, InputFile)
        /\ content' = files[InputFile][1]
        /\ cc_trace' = Append(cc_trace, "read")
        /\ cc_pc' = "clean"
        /\ UNCHANGED << cc_result, cc_reported >>
     \/ /\ cc_reported' = Append(cc_reported, "Error processing file")
        /\ cc_result' = None
        /\ cc_pc' = "returned"
        /\ UNCHANGED << content, cc_trace >>
  /\ UNCHANGED << files, cleaned_text, cc_files_at_call >>

\* Line 29.
CcClean ==
  /\ cc_pc = "clean"
  /\ cleaned_text' = clean_text(content)
  /\ cc_trace' = Append(cc_trace, "clean")
  /\ cc_pc' = "write"
  /\ UNCHANGED << files, content, cc_result, cc_reported, cc_files_at_call >>

\* Lines 32-38: the output is written and the text returned; open may
\* fail before the file is touched, write after it was truncated.
CcWrite ==
  /\ cc_pc = "write"
  /\ \/ /\ files' = WriteFile(files, OutputFile, cleaned_text)
        /\ cc_trace' = Append(cc_trace, "write")
        /\ cc_result' = Some(cleaned_text)
        /\ UNCHANGED cc_reported
     \/ /\ files' = files
        /\ cc_reported' = Append(cc_reported, "Error processing file")
        /\ cc_result' = None
        /\ UNCHANGED cc_trace
     \/ /\ files' = WriteFile(files, OutputFile, << >>)
        /\ cc_trace' = Append(cc_trace, "write")
        /\ cc_reported' = Append(cc_reported, "Error processing file")
        /\ cc_result' = None
  /\ cc_pc' = "returned"
  /\ UNCHANGED << content, cleaned_text, cc_files_at_call >>

\* Between calls the user replaces or removes the input file.
CcEnvironment ==
  /\ cc_pc \in {"idle", "returned"}
  /\ \E f \in {Absent} \cup {File(t) : t \in CleanerTexts} :
       files' = [files EXCEPT ![InputFile] = f]
  /\ cc_pc' = "idle"
  /\ UNCHANGED << content, cleaned_text, cc_result, cc_reported, cc_files_at_call, cc_trace >>

(***************************************************************************)
(* get_video_captions and main (link_to_cap.py)                             *)
(***************************************************************************)
\* The key lists of info['subtitles'] and info['automatic_captions'].
KeyLists ==
  {ks \in BoundedSeqs(Langs, Cardinality(Langs)) :
     \A i, j \in 1..Len(ks) : i # j => ks[i] # ks[j]}

HasKey(keys, lang) == \E k \in 1..Len(keys) : keys[k] = lang

\* What the download service may put into the temporary file.
VttContents == {VttExample, VttHeaderOnly}

Event(op) == [op |-> op, writesubtitles |-> FALSE, writeautomaticsub |-> FALSE]

DownloadEvent(opts) ==
  [op |-> "download",
   writesubtitles |-> opts.writesubtitles,
   writeautomaticsub |-> opts.writeautomaticsub]

Message(msg) == [msg |-> msg, langs |-> << >>]

\* Lines 20-27.
InitialOpts == [writesubtitles |-> TRUE, writeautomaticsub |-> TRUE]

\* Lines 41-55: "manual", "automatic" or "none".
TrackAutomaticFirst(lang, subs, autos) ==
  IF HasKey(autos, lang) THEN "automatic"
  ELSE IF HasKey(subs, lang) THEN "manual"
  ELSE "none"

Track(lang, subs, autos) ==
  IF HasKey(subs, lang) THEN "manual"
  ELSE IF HasKey(autos, lang) THEN "automatic"
  ELSE "none"

\* Line 52.
AvailableManualOnly(subs, autos) == subs

AvailableLangs(subs, autos) == subs \o autos

\* bool(captions) in main, line 143.
Truthy(v) == v # None /\ v[1] # << >>

FetchIdle ==
  /\ gv_pc = "idle"
  /\ language = "en"
  /\ subtitles = << >>
  /\ automatic_captions = << >>
  /\ ydl_opts = InitialOpts
  /\ captions = None
  /\ gv_reported = << >>
  /\ gv_trace = << >>
  /\ materialized = None
  /\ all_ok = TRUE

\* Return None from get_video_captions after printing msg.
ReturnNone(msg) ==
  /\ gv_reported' = Append(gv_reported, msg)
  /\ captions' = None
  /\ all_ok' = FALSE
  /\ gv_pc' = "returned"

\* main, lines 119-141, up to the call of get_video_captions, whose
\* lines 20-27 set the options.
MainStart ==
  /\ gv_pc \in {"idle", "exited", "crashed"}
  /\ \E lang \in Langs : language' = lang
  /\ gv_pc' = "call"
  /\ ydl_opts' = InitialOpts
  /\ subtitles' = << >>
  /\ automatic_captions' = << >>
  /\ captions' = None
  /\ gv_reported' = << >>
  /\ gv_trace' = << >>
  /\ materialized' = None
  /\ UNCHANGED << files, all_ok >>

\* Lines 30-39: the metadata query returns the two key lists, or raises.
ExtractInfo ==
  /\ gv_pc = "call"
  /\ \/ /\ \E subs \in KeyLists, autos \in KeyLists :
             /\ subtitles' = subs
             /\ automatic_captions' = autos
        /\ gv_trace' = Append(gv_trace, Event("info"))
        /\ gv_pc' = "select"
        /\ UNCHANGED << captions, gv_reported, all_ok >>
     \/ /\ ReturnNone(Message("Error extracting captions"))
        /\ UNCHANGED << subtitles, automatic_captions, gv_trace >>
  /\ UNCHANGED << files, language, ydl_opts, materialized >>

\* Lines 41-55: the track is chosen, or the languages are printed and None
\* returned.
SelectTrack ==
  /\ gv_pc = "select"
  /\ LET track == Track(language, subtitles, automatic_captions)
     IN  IF track = "none"
         THEN /\ gv_reported' =
                   gv_reported \o
                     << Message("No captions found"),
                        [msg |-> "Available languages",
                         langs |-> AvailableLangs(subtitles, automatic_captions)] >>
              /\ captions' = None
              /\ all_ok' = FALSE
              /\ gv_pc' = "returned"
              /\ UNCHANGED ydl_opts
         ELSE /\ ydl_opts' = [writesubtitles |-> track = "manual",
                              writeautomaticsub |-> track = "automatic"]
              /\ gv_reported' = Append(gv_reported, Message(track))
              /\ gv_pc' = "download"
              /\ UNCHANGED << captions, all_ok >>
  /\ UNCHANGED << files, language, subtitles, automatic_captions, gv_trace, materialized >>

\* Lines 58-59: the download may write the temporary file or not, and may
\* return or raise.
Download ==
  /\ gv_pc = "download"
  /\ gv_trace' = Append(gv_trace, DownloadEvent(ydl_opts))
  /\ \/ \E data \in VttContents :
          /\ files' = WriteFile(files, TempName(language), data)
          /\ materialized' = Some(data)
     \/ UNCHANGED << files, materialized >>
  /\ \/ /\ gv_pc' = "glob"
        /\ UNCHANGED << captions, gv_reported, all_ok >>
     \/ ReturnNone(Message("Error extracting captions"))
  /\ UNCHANGED << language, subtitles, automatic_captions, ydl_opts >>

\* Lines 62-67.
FindCaptionFile ==
  /\ gv_pc = "glob"
  /\ IF Exists(files, TempName(language))
     THEN /\ gv_pc' = "parse"
          /\ UNCHANGED << captions, gv_reported, all_ok >>
     ELSE ReturnNone(Message("Caption file not found after download"))
  /\ UNCHANGED << files, language, subtitles, automatic_captions, ydl_opts,
                  gv_trace, materialized >>

\* Line 68: parse_vtt_file returns the text, or None after its own handler
\* caught a failure of open or read.
ParseCaptionFile ==
  /\ gv_pc = "parse"
  /\ \/ /\ captions' = Some(parse_vtt_file(files[TempName(language)][1]))
        /\ gv_trace' = Append(gv_trace, Event("read"))
        /\ UNCHANGED gv_reported
     \/ /\ captions' = None
        /\ gv_reported' = Append(gv_reported, Message("Error parsing VTT file"))
        /\ UNCHANGED gv_trace
  /\ gv_pc' = "unlink"
  /\ UNCHANGED << files, language, subtitles, automatic_captions, ydl_opts,
                  materialized, all_ok >>

\* Lines 71-73: the file is removed and the text returned; a failure of
\* unlink goes to the handler of lines 75-77.
UnlinkAndReturn ==
  /\ gv_pc = "unlink"
  /\ \/ /\ files' = Unlink(files, TempName(language))
        /\ gv_trace' = Append(gv_trace, Event("unlink"))
        /\ all_ok' = (all_ok /\ captions # None)
        /\ gv_pc' = "returned"
        /\ UNCHANGED << captions, gv_reported >>
     \/ /\ ReturnNone(Message("Error extracting captions"))
        /\ UNCHANGED << files, gv_trace >>
  /\ UNCHANGED << language, subtitles, automatic_captions, ydl_opts, materialized >>

\* main, lines 143-155: the captions are printed, or the failure is.
MainAfterCall ==
  /\ gv_pc = "returned"
  /\ gv_pc' = IF Truthy(captions) THEN "prompt" ELSE "exited"
  /\ UNCHANGED << files, language, subtitles, automatic_captions, ydl_opts,
                  captions, gv_reported, gv_trace, materialized, all_ok >>

\* main, lines 148-149: input() returns an answer, or raises at end of input.
MainPrompt ==
  /\ gv_pc = "prompt"
  /\ gv_trace' = Append(gv_trace, Event("prompt"))
  /\ \E next \in {"save", "exited", "crashed"} : gv_pc' = next
  /\ UNCHANGED << files, language, subtitles, automatic_captions, ydl_opts,
                  captions, gv_reported, materialized, all_ok >>

\* main, lines 150-153: captions_<lang>.txt is written; nothing catches a
\* failure of open or write.
MainSave ==
  /\ gv_pc = "save"
  /\ gv_trace' = Append(gv_trace, Event("save"))
  /\ \/ /\ files' = WriteFile(files, SaveName(language), captions[1])
        /\ gv_pc' = "exited"
     \/ /\ UNCHANGED files
        /\ gv_pc' = "crashed"
  /\ UNCHANGED << language, subtitles, automatic_captions, ydl_opts,
                  captions, gv_reported, materialized, all_ok >>

(***************************************************************************)
(* Specifications                                                          *)
(***************************************************************************)
\* clean_text on every input of the bounded families.
CleanInit ==
  /\ text \in CleanInputs
  /\ clean_pc = "start"
  /\ cleaned_lines = << >>
  /\ sentences = << >>
  /\ paragraphs = << >>
  /\ final_text = << >>
  /\ recleaned = << >>
  /\ files = NoFiles
  /\ CleanerIdle
  /\ FetchIdle
  /\ VttIdle

CleanNext ==
  \/ CleanToLines /\ UNCHANGED << files, cleanerVars, fetchVars, vttVars >>
  \/ CleanToSentences /\ UNCHANGED << files, cleanerVars, fetchVars, vttVars >>
  \/ CleanToFinal /\ UNCHANGED << files, cleanerVars, fetchVars, vttVars >>
  \/ Reclean /\ UNCHANGED << files, cleanerVars, fetchVars, vttVars >>

SpecClean == CleanInit /\ [][CleanNext]_vars

\* clean_captions called again and again in a directory the user changes.
CleanerInit ==
  /\ \E inp \in {Absent} \cup {File(t) : t \in CleanerTexts},
        out \in {Absent, File(OldOutput)} :
       files = [NoFiles EXCEPT ![InputFile] = inp, ![OutputFile] = out]
  /\ CleanIdle
  /\ CleanerIdle
  /\ FetchIdle
  /\ VttIdle

CleanerNext ==
  \/ CcCall /\ UNCHANGED << cleanVars, fetchVars, vttVars >>
  \/ CcRead /\ UNCHANGED << cleanVars, fetchVars, vttVars >>
  \/ CcClean /\ UNCHANGED << cleanVars, fetchVars, vttVars >>
  \/ CcWrite /\ UNCHANGED << cleanVars, fetchVars, vttVars >>
  \/ CcEnvironment /\ UNCHANGED << cleanVars, fetchVars, vttVars >>

SpecCleaner == CleanerInit /\ [][CleanerNext]_vars

\* The fetcher's main run again and again in one directory.
FetchInit ==
  /\ files = NoFiles
  /\ CleanIdle
  /\ CleanerIdle
  /\ FetchIdle
  /\ VttIdle

FetchNext ==
  \/ MainStart /\ UNCHANGED << cleanVars, cleanerVars, vttVars >>
  \/ ExtractInfo /\ UNCHANGED << cleanVars, cleanerVars, vttVars >>
  \/ SelectTrack /\ UNCHANGED << cleanVars, cleanerVars, vttVars >>
  \/ Download /\ UNCHANGED << cleanVars, cleanerVars, vttVars >>
  \/ FindCaptionFile /\ UNCHANGED << cleanVars, cleanerVars, vttVars >>
  \/ ParseCaptionFile /\ UNCHANGED << cleanVars, cleanerVars, vttVars >>
  \/ UnlinkAndReturn /\ UNCHANGED << cleanVars, cleanerVars, vttVars >>
  \/ MainAfterCall /\ UNCHANGED << cleanVars, cleanerVars, vttVars >>
  \/ MainPrompt /\ UNCHANGED << cleanVars, cleanerVars, vttVars >>
  \/ MainSave /\ UNCHANGED << cleanVars, cleanerVars, vttVars >>

SpecFetch == FetchInit /\ [][FetchNext]_vars

\* parse_vtt_file on every file of the bounded family.
VttInit ==
  /\ vtt_data \in VttInputs
  /\ vtt_pc = "start"
  /\ vtt_result = None
  /\ files = NoFiles
  /\ CleanIdle
  /\ CleanerIdle
  /\ FetchIdle

VttNext ==
  \/ VttParse /\ UNCHANGED << cleanVars, files, cleanerVars, fetchVars >>
  \/ VttFail /\ UNCHANGED << cleanVars, files, cleanerVars, fetchVars >>

SpecVtt == VttInit /\ [][VttNext]_vars

Init == CleanInit

Next == CleanNext

Spec == SpecClean

(***************************************************************************)
(* Properties of clean_text                                                *)
(***************************************************************************)
CleanReturned == clean_pc \in {"done", "recleaned"}

\* The sentences of step 8 that the loop of step 9 appends: trimmed, not empty.
AppendedSentences ==
  SelectSeq([k \in 1..Len(sentences) |-> Strip(sentences[k])],
            LAMBDA st : st # << >>)

\* The trimmed, non-empty lines of the text after steps 1 to 3.
TrimmedLines ==
  LET lines == SplitNewlines(StripMarkup(text))
  IN  SelectSeq([k \in 1..Len(lines) |-> Strip(lines[k])], LAMBDA l : l # << >>)

\* The positions of TrimmedLines whose line differs from the line before.
RunStarts ==
  {i \in 1..Len(TrimmedLines) : i = 1 \/ TrimmedLines[i] # TrimmedLines[i - 1]}

WhitespaceBeforePunct(s) ==
  \E i \in 1..(Len(s) - 1) : s[i] \in Whitespace /\ s[i + 1] \in Punct

\* C1: clean_text applied to its own output returns that output unchanged.
C1_Idempotent == clean_pc = "recleaned" => recleaned = final_text

\* C2: the output is the paragraphs joined by a blank line; every paragraph
\* holds at most 4 sentences and every paragraph but the last exactly 4; the
\* paragraphs hold all the sentences in their order; fewer than 4 sentences
\* give one paragraph that holds them all.
C2_ParagraphsOfFour ==
  CleanReturned =>
    /\ \A k \in 1..Len(paragraphs) :
         /\ Len(paragraphs[k]) >= 1
         /\ Len(paragraphs[k]) <= 4
         /\ k < Len(paragraphs) => Len(paragraphs[k]) = 4
    /\ Concat(paragraphs) = AppendedSentences
    /\ final_text =
         Join([k \in 1..Len(paragraphs) |-> Join(paragraphs[k], << " " >>)],
              << "\n", "\n" >>)
    /\ Len(AppendedSentences) < 4 =>
         /\ final_text = Join(AppendedSentences, << " " >>)
         /\ Len(paragraphs) <= 1
         /\ AppendedSentences # << >> => paragraphs = << AppendedSentences >>

\* Five or more sentences: a full paragraph and a shorter last one.
C2_Witness ==
  /\ CleanReturned
  /\ Len(paragraphs) >= 2
  /\ Len(paragraphs[Len(paragraphs)]) < 4

\* C9: the lines of step 4 hold no empty line and no line equal to the line
\* before it, and they are exactly the first lines of the runs of equal
\* consecutive lines, so a line equal to an earlier line that is not its
\* neighbour stays.
C9_ConsecutiveDedup ==
  clean_pc # "start" =>
    /\ \A k \in 1..Len(cleaned_lines) : cleaned_lines[k] # << >>
    /\ \A k \in 2..Len(cleaned_lines) : cleaned_lines[k] # cleaned_lines[k - 1]
    /\ Len(cleaned_lines) = Cardinality(RunStarts)
    /\ \A i \in RunStarts :
         cleaned_lines[Cardinality({m \in RunStarts : m <= i})] = TrimmedLines[i]

\* A kept line equal to an earlier kept line, and a dropped duplicate.
C9_Witness ==
  /\ clean_pc = "lines"
  /\ \E i, j \in 1..Len(cleaned_lines) : j > i + 1 /\ cleaned_lines[i] = cleaned_lines[j]
  /\ Len(cleaned_lines) < Len(TrimmedLines)

\* C10: no whitespace character of the output stands right before one of
\* , . ! ? ; :
C10_NoSpaceBeforePunct == CleanReturned => ~WhitespaceBeforePunct(final_text)

\* The lines of step 4 had whitespace before punctuation and the output
\* keeps the punctuation and a later sentence.
C10_Witness ==
  /\ clean_pc = "done"
  /\ WhitespaceBeforePunct(Join(cleaned_lines, << "\n" >>))
  /\ Len(sentences) >= 2
  /\ \E i \in 1..Len(final_text) : final_text[i] \in Punct

(***************************************************************************)
(* Properties of clean_captions                                            *)
(***************************************************************************)
\* C7: with the input file missing the call reports it, returns None and
\* leaves every file as it was; the output file is written only after the
\* input was read and cleaned.
C7_MissingInputWritesNothing ==
  /\ (cc_pc = "returned" /\ ~Exists(cc_files_at_call, InputFile)) =>
       /\ cc_result = None
       /\ cc_reported # << >>
       /\ files = cc_files_at_call
  /\ \A k \in 1..Len(cc_trace) :
       cc_trace[k] = "write" => (k = 3 /\ cc_trace[1] = "read" /\ cc_trace[2] = "clean")
  /\ (cc_pc # "idle" /\ files[OutputFile] # cc_files_at_call[OutputFile]) =>
       (Len(cc_trace) = 3 /\ cc_trace[3] = "write")

\* A call with the input missing returned, and an older output is still there.
C7_Witness ==
  /\ cc_pc = "returned"
  /\ ~Exists(cc_files_at_call, InputFile)
  /\ files[OutputFile] = File(OldOutput)

(***************************************************************************)
(* Properties of parse_vtt_file                                            *)
(***************************************************************************)
Hello == << "H", "e", "l", "l", "o" >>

VttTrimmedLines ==
  LET lines == ReadLines(vtt_data)
  IN  [k \in 1..Len(lines) |-> Strip(lines[k])]

OnlyDigitsAndSeparators(line) ==
  \A k \in 1..Len(line) : line[k] \in Digits \cup {":", ".", ","}

HasDigit(line) == \E k \in 1..Len(line) : line[k] \in Digits

DroppedAsStated(line) ==
  \/ StartsWithAt(line, 1, WebVtt)
  \/ StartsWithAt(line, 1, Note)
  \/ Contains(line, Arrow)
  \/ line = << >>
  \/ OnlyDigitsAndSeparators(line)
  \/ line[1] = "<"

DroppedAsAmended(line) ==
  \/ StartsWithAt(line, 1, WebVtt)
  \/ StartsWithAt(line, 1, Note)
  \/ Contains(line, Arrow)
  \/ line = << >>
  \/ (OnlyDigitsAndSeparators(line) /\ HasDigit(line))
  \/ line[1] = "<"

\* C8 as stated: the result is the trimmed lines, in order and joined with
\* newlines, that are not a line beginning with WEBVTT or NOTE, a line with
\* "-->", a blank line, a line made only of digits and : . , or a line
\* beginning with "<"; the example file gives "Hello".
C8_AsStated ==
  vtt_pc = "parsed" =>
    /\ vtt_result =
         Some(Join(SelectSeq(VttTrimmedLines, LAMBDA l : ~DroppedAsStated(l)),
                   << "\n" >>))
    /\ vtt_data = VttExample => vtt_result = Some(Hello)

\* C8 amended: as stated, but a line made only of digits and : . , is
\* dropped only when it holds at least one digit.
C8_Amended ==
  vtt_pc = "parsed" =>
    /\ vtt_result =
         Some(Join(SelectSeq(VttTrimmedLines, LAMBDA l : ~DroppedAsAmended(l)),
                   << "\n" >>))
    /\ vtt_data = VttExample => vtt_result = Some(Hello)

\* A file with a line of separators only, which the parser keeps, and a
\* line of digits and separators, which it drops.
C8_Witness ==
  /\ vtt_pc = "parsed"
  /\ \E k \in 1..Len(VttTrimmedLines) :
       VttTrimmedLines[k] # << >> /\ OnlyDigitsAndSeparators(VttTrimmedLines[k])
         /\ ~HasDigit(VttTrimmedLines[k])
  /\ \E k \in 1..Len(VttTrimmedLines) : HasDigit(VttTrimmedLines[k])
  /\ vtt_result = Some(<< ":" >>)

(***************************************************************************)
(* Properties of get_video_captions and main                                *)
(***************************************************************************)
Downloads == SelectSeq(gv_trace, LAMBDA e : e.op = "download")

Did(op) == \E k \in 1..Len(gv_trace) : gv_trace[k].op = op

InCall == gv_pc \in {"call", "select", "download", "glob", "parse", "unlink"}

\* C3: a download is issued at most once per call and only after the
\* metadata query returned; with the language among the manual subtitles it
\* asks for manual and not automatic subtitles, and it asks for automatic
\* subtitles only with the language absent from the manual and present in
\* the automatic set.
C3_ManualPreferred ==
  /\ Len(Downloads) <= 1
  /\ \A k \in 1..Len(gv_trace) :
       gv_trace[k].op = "download" => \E j \in 1..(k - 1) : gv_trace[j].op = "info"
  /\ \A k \in 1..Len(Downloads) :
       /\ HasKey(subtitles, language) =>
            (Downloads[k].writesubtitles /\ ~Downloads[k].writeautomaticsub)
       /\ Downloads[k].writeautomaticsub =>
            (~HasKey(subtitles, language) /\ HasKey(automatic_captions, language))
       /\ Downloads[k].writesubtitles \/ Downloads[k].writeautomaticsub

\* The language is in both sets and the download was issued.
C3_Witness ==
  /\ Len(Downloads) = 1
  /\ HasKey(subtitles, language)
  /\ HasKey(automatic_captions, language)

\* C4: with the language in neither set the call returns None, prints the
\* manual keys followed by the automatic keys as the metadata gave them,
\* and downloads, reads and deletes nothing.
C4_LanguageUnavailable ==
  (/\ gv_pc = "returned"
   /\ Did("info")
   /\ ~HasKey(subtitles, language)
   /\ ~HasKey(automatic_captions, language)) =>
    /\ captions = None
    /\ \E k \in 1..Len(gv_reported) :
         /\ gv_reported[k].msg = "Available languages"
         /\ gv_reported[k].langs = subtitles \o automatic_captions
    /\ ~Did("download") /\ ~Did("read") /\ ~Did("unlink")
    /\ materialized = None

\* The language is in neither set while both sets name another language.
C4_Witness ==
  /\ gv_pc = "returned"
  /\ Did("info")
  /\ ~HasKey(subtitles, language)
  /\ ~HasKey(automatic_captions, language)
  /\ subtitles # << >>
  /\ automatic_captions # << >>

\* C5: a call that returns a text has read the temporary file before it
\* deleted it, and the file is gone at the return; while every call so far
\* returned a text, no temporary file exists between calls and the text was
\* parsed from the content this call's download wrote.
C5_TempFileScoped ==
  /\ (gv_pc = "returned" /\ captions # None) =>
       /\ \E i, j \in 1..Len(gv_trace) :
            i < j /\ gv_trace[i].op = "read" /\ gv_trace[j].op = "unlink"
       /\ ~Exists(files, TempName(language))
  /\ (all_ok /\ ~InCall) =>
       \A l \in Langs : ~Exists(files, TempName(l))
  /\ (all_ok /\ gv_pc = "returned") =>
       /\ materialized # None
       /\ captions = Some(parse_vtt_file(materialized[1]))

\* A second successful call: an earlier call's captions were saved.
C5_Witness ==
  /\ gv_pc = "returned"
  /\ all_ok
  /\ captions = Some(Hello)
  /\ Exists(files, SaveName(language))

\* C6: a failure of a step of the fetcher (metadata query, download, reading
\* or parsing the file, deleting it, saving captions_<lang>.txt) is caught: a
\* message is printed and None returned, and the process is never ended by
\* an exception of the save.
C6_FailuresCaught ==
  /\ (gv_pc = "returned" /\ \E k \in 1..Len(gv_reported) :
          gv_reported[k].msg \in {"Error extracting captions", "Error parsing VTT file"}) =>
       captions = None
  /\ ~(gv_pc = "crashed" /\ gv_trace[Len(gv_trace)].op = "save")

====
